---------------------------- MODULE Spec2Model ----------------------------
(***************************************************************************)
(* A model of the two agent demos of this repository:                      *)
(*   src/.venv/agent_demo.py  Planner -> Reviewer -> Finalizer, with the   *)
(*                            JSON extractor and the schema enforcer;      *)
(*   src/agents_demo.py       health probe, Planner -> Reviewer.           *)
(*                                                                         *)
(* Text is a sequence of symbols.  A symbol is one character ("{", "a",    *)
(* " ", ...) or an atom standing for a fixed run of characters that the    *)
(* code never looks into: "FENCE" is the run of three backticks, "NL" a    *)
(* line break, "json", "null", "true", "false" and the key names           *)
(* ("tags", "planner", ...) are the lowercase words they spell.  No atom   *)
(* contains t1, t2 or t3 or starts with a digit, and no text of the model  *)
(* puts a digit right after an atom, so the placeholder test reads the     *)
(* same on symbols as on characters.                                       *)
(*                                                                         *)
(* A JSON value is a record [k, v]: k names the Python type, v holds the   *)
(* payload (a dict is the sequence of its items in insertion order).       *)
(***************************************************************************)
EXTENDS Integers, Sequences, FiniteSets, TLC

VARIABLES
    mode,        \* which program this behaviour runs: "enforce", "extract", "v1", "v2"
    obj,         \* ensure_final_strict: its argument
    publish,     \* ensure_final_strict: its return value ([raised |-> TRUE] if it raised)
    text,        \* extract_json: its argument
    extracted,   \* extract_json: its return value
    pc,          \* main: the position in the body
    calls,       \* main: the model calls issued so far, in order
    raw,         \* main: the reply of the last model call
    planner,     \* main: the local of that name
    reviewer,    \* main: the local of that name
    chosen_tags, \* main: the local of that name
    chosen_summary, \* main: the local of that name
    final_obj,   \* main: extract_json(final_raw), before the substitutions
    handed,      \* main: the object passed to ensure_final_strict
    attempts,    \* wait_ollama: the outcomes of the requests made so far
    sleeps,      \* wait_ollama: for each request made, whether time.sleep followed it
    printed      \* main (src/agents_demo.py): the sections printed so far

vars == <<mode, obj, publish, text, extracted, pc, calls, raw, planner, reviewer,
          chosen_tags, chosen_summary, final_obj, handed, attempts, sleeps, printed>>

-----------------------------------------------------------------------------
(* Sequences *)

Min(S) == CHOOSE x \in S : \A y \in S : x <= y

Take(s, n) == SubSeq(s, 1, IF n < Len(s) THEN n ELSE Len(s))

\* s[a..b] with 1-based inclusive ends, empty when b < a
Slice(s, a, b) == IF b < a THEN << >> ELSE SubSeq(s, a, b)

RECURSIVE Flatten(_)
Flatten(ss) == IF ss = << >> THEN << >> ELSE Head(ss) \o Flatten(Tail(ss))

RECURSIVE Repeat(_, _)
Repeat(s, n) == IF n = 0 THEN << >> ELSE s \o Repeat(s, n - 1)

\* sub occurs in s as a contiguous run (Python: sub in s)
Contains(s, sub) ==
    \E i \in 1..(Len(s) - Len(sub) + 1) : SubSeq(s, i, i + Len(sub) - 1) = sub

-----------------------------------------------------------------------------
(* Characters and str methods *)

IsSpace(c) == c \in {" ", "NL"}

Digits == <<"0", "1", "2", "3", "4", "5", "6", "7", "8", "9">>

IsDigit(c) == \E d \in 1..10 : Digits[d] = c

DigitVal(c) == (CHOOSE d \in 1..10 : Digits[d] = c) - 1

LowerChar(c) ==
    CASE c = "Alpha" -> "alpha"
      [] c = "A" -> "a"
      [] c = "B" -> "b"
      [] c = "T" -> "t"
      [] c = "G" -> "g"
      [] OTHER -> c

\* str.lower
Lower(s) == [i \in 1..Len(s) |-> LowerChar(s[i])]

\* str.strip
Strip(s) ==
    LET keep == {i \in 1..Len(s) : ~IsSpace(s[i])}
    IN  IF keep = {} THEN << >>
        ELSE SubSeq(s, Min(keep), CHOOSE j \in keep : \A i \in keep : i <= j)

\* str.find of a single character, 1-based; 0 when absent (Python: -1)
Find(s, c) ==
    LET at == {i \in 1..Len(s) : s[i] = c}
    IN  IF at = {} THEN 0 ELSE Min(at)

\* str.rfind of a single character, 1-based; 0 when absent (Python: -1)
RFind(s, c) ==
    LET at == {i \in 1..Len(s) : s[i] = c}
    IN  IF at = {} THEN 0 ELSE CHOOSE j \in at : \A i \in at : i <= j

-----------------------------------------------------------------------------
(* JSON values as Python objects *)

JNull == [k |-> "null", v |-> 0]
JBool(b) == [k |-> "bool", v |-> b]
JNum(n) == [k |-> "num", v |-> n]
JStr(s) == [k |-> "str", v |-> s]
JList(xs) == [k |-> "list", v |-> xs]
JDict(items) == [k |-> "dict", v |-> items]
EmptyDict == JDict(<< >>)
Item(key, val) == [key |-> key, val |-> val]

IsDict(x) == x.k = "dict"
IsList(x) == x.k = "list"
IsStr(x) == x.k = "str"

\* Python truth value: not x  ==  ~Truthy(x)
Truthy(x) ==
    CASE x.k = "null" -> FALSE
      [] x.k = "bool" -> x.v
      [] x.k = "num" -> x.v # 0
      [] OTHER -> x.v # << >>

HasKey(d, key) == \E i \in 1..Len(d.v) : d.v[i].key = key

\* dict.get(key, default)
Get(d, key, default) ==
    IF HasKey(d, key)
    THEN d.v[CHOOSE i \in 1..Len(d.v) : d.v[i].key = key].val
    ELSE default

\* d[key] = val: an existing key keeps its place
SetItem(d, key, val) ==
    IF HasKey(d, key)
    THEN JDict([i \in 1..Len(d.v) |->
                  IF d.v[i].key = key THEN Item(key, val) ELSE d.v[i]])
    ELSE JDict(Append(d.v, Item(key, val)))

-----------------------------------------------------------------------------
(* json.loads on the symbols of this model *)

Fail == [ok |-> FALSE, val |-> JNull, pos |-> 0]
Ok(val, pos) == [ok |-> TRUE, val |-> val, pos |-> pos]

\* the first index >= i that holds no whitespace
RECURSIVE SkipWs(_, _)
SkipWs(t, i) == IF i <= Len(t) /\ IsSpace(t[i]) THEN SkipWs(t, i + 1) ELSE i

\* the end of the run of digits that starts at i
RECURSIVE DigitsRun(_, _)
DigitsRun(t, i) == IF i <= Len(t) /\ IsDigit(t[i]) THEN DigitsRun(t, i + 1) ELSE i

\* the end of the match of (?:0|[1-9]\d*) at the digit at i
DigitsEnd(t, i) == IF t[i] = "0" THEN i + 1 ELSE DigitsRun(t, i)

RECURSIVE DigitsVal(_, _)
DigitsVal(ds, acc) ==
    IF ds = << >> THEN acc ELSE DigitsVal(Tail(ds), 10 * acc + DigitVal(Head(ds)))

\* py_scanstring (strict) for a literal whose closing quote is at close (0:
\* there is none); a line break inside it is an invalid control character
StringAt(t, i, close) ==
    IF close = 0 \/ (\E j \in i..(close - 1) : t[j] = "NL") THEN Fail
    ELSE Ok(JStr(Slice(t, i, close - 1)), close + 1)

\* the first index >= i that holds c, 0 when there is none
RECURSIVE FindFrom(_, _, _)
FindFrom(t, i, c) ==
    IF i > Len(t) THEN 0 ELSE IF t[i] = c THEN i ELSE FindFrom(t, i + 1, c)

\* a string body: i is the index after the opening quote
ScanString(t, i) == StringAt(t, i, FindFrom(t, i, "\""))

\* an integer literal (-?(?:0|[1-9]\d*)) whose digits run from i to e - 1
NumberAt(t, i, e, sign) == Ok(JNum(sign * DigitsVal(SubSeq(t, i, e - 1), 0)), e)

RECURSIVE ScanOnce(_, _), ParseArray(_, _, _), ParseObject(_, _, _)

\* JSONDecoder's scan_once: one value starting exactly at i
ScanOnce(t, i) ==
    IF i > Len(t) THEN Fail
    ELSE CASE t[i] = "\"" -> ScanString(t, i + 1)
           [] t[i] = "{" -> ParseObject(t, SkipWs(t, i + 1), EmptyDict)
           [] t[i] = "[" -> ParseArray(t, SkipWs(t, i + 1), << >>)
           [] t[i] = "null" -> Ok(JNull, i + 1)
           [] t[i] = "true" -> Ok(JBool(TRUE), i + 1)
           [] t[i] = "false" -> Ok(JBool(FALSE), i + 1)
           [] IsDigit(t[i]) -> NumberAt(t, i, DigitsEnd(t, i), 1)
           [] t[i] = "-" /\ i < Len(t) /\ IsDigit(t[i + 1]) ->
                NumberAt(t, i + 1, DigitsEnd(t, i + 1), 0 - 1)
           [] OTHER -> Fail

\* JSONArray after an element r: j is at the "," or the "]" that follows
ArrayNext(t, j, xs) ==
    IF j > Len(t) THEN Fail
    ELSE IF t[j] = "]" THEN Ok(JList(xs), j + 1)
    ELSE IF t[j] = "," THEN ParseArray(t, SkipWs(t, j + 1), xs)
    ELSE Fail

ArrayElement(t, r, acc) ==
    IF ~r.ok THEN Fail ELSE ArrayNext(t, SkipWs(t, r.pos), Append(acc, r.val))

\* JSONArray after "[" or ",": i is at "]" (only when acc is empty) or at an
\* element
ParseArray(t, i, acc) ==
    IF acc = << >> /\ i <= Len(t) /\ t[i] = "]" THEN Ok(JList(<< >>), i + 1)
    ELSE ArrayElement(t, ScanOnce(t, i), acc)

\* JSONObject after a pair: j is at the "," or the "}" that follows
ObjectNext(t, j, d) ==
    IF j > Len(t) THEN Fail
    ELSE IF t[j] = "}" THEN Ok(d, j + 1)
    ELSE IF t[j] = "," /\ SkipWs(t, j + 1) <= Len(t) /\ t[SkipWs(t, j + 1)] = "\""
         THEN ParseObject(t, SkipWs(t, j + 1), d)
    ELSE Fail

ObjectValue(t, key, r, acc) ==
    IF ~r.ok THEN Fail ELSE ObjectNext(t, SkipWs(t, r.pos), SetItem(acc, key, r.val))

\* c is at the ":" after the key
ObjectColon(t, key, c, acc) ==
    IF c > Len(t) \/ t[c] # ":" THEN Fail
    ELSE ObjectValue(t, key, ScanOnce(t, SkipWs(t, c + 1)), acc)

ObjectKey(t, key, acc) ==
    IF ~key.ok THEN Fail ELSE ObjectColon(t, key.val.v, SkipWs(t, key.pos), acc)

\* JSONObject after "{" or ",": i is at "}" (only when acc is empty) or at a
\* key's opening quote
ParseObject(t, i, acc) ==
    IF acc = EmptyDict /\ i <= Len(t) /\ t[i] = "}" THEN Ok(EmptyDict, i + 1)
    ELSE IF i > Len(t) \/ t[i] # "\"" THEN Fail
    ELSE ObjectKey(t, ScanString(t, i + 1), acc)

\* the value r, unless anything but whitespace follows it
WholeText(t, r) == IF r.ok /\ SkipWs(t, r.pos) = Len(t) + 1 THEN r ELSE Fail

\* json.loads(t): [ok |-> FALSE] stands for the exception it raises
json_loads(t) == WholeText(t, ScanOnce(t, SkipWs(t, 1)))

-----------------------------------------------------------------------------
(* extract_json, src/.venv/agent_demo.py *)

NoMatch == [found |-> FALSE, from |-> 0, to |-> 0]

\* re.search(r'```(?:json)?\s*(\{.*?\})\s*```', t, flags=re.S): the span of
\* group 1.  The leftmost fence that opens a match wins; from it the group
\* runs from the "{" after the optional "json" and whitespace to the nearest
\* "}" that only whitespace separates from a closing fence.
FencedBlock(t) ==
    LET Open(s) == SkipWs(t, IF s < Len(t) /\ t[s + 1] = "json" THEN s + 2 ELSE s + 1)
        Closes(s) == {e \in (Open(s) + 1)..Len(t) :
                        /\ t[e] = "}"
                        /\ SkipWs(t, e + 1) <= Len(t)
                        /\ t[SkipWs(t, e + 1)] = "FENCE"}
        starts == {s \in 1..Len(t) :
                        /\ t[s] = "FENCE"
                        /\ Open(s) <= Len(t)
                        /\ t[Open(s)] = "{"
                        /\ Closes(s) # {}}
    IN  IF starts = {} THEN NoMatch
        ELSE [found |-> TRUE, from |-> Open(Min(starts)), to |-> Min(Closes(Min(starts)))]

\* the loop of lines 32-42 at index i with brace_count = count: the index of
\* the "}" that brings the count back to 0, or 0 when the text ends first
RECURSIVE BraceScan(_, _, _)
BraceScan(t, i, count) ==
    IF i > Len(t) THEN 0
    ELSE IF t[i] = "{" THEN BraceScan(t, i + 1, count + 1)
    ELSE IF t[i] = "}"
         THEN IF count - 1 = 0 THEN i ELSE BraceScan(t, i + 1, count - 1)
    ELSE BraceScan(t, i + 1, count)

\* json.loads(text[start:i+1]) for the span found, Fail when there is none
ParseSpan(t, start, i) ==
    IF start = 0 \/ i < start THEN Fail ELSE json_loads(SubSeq(t, start, i))

\* the "}" that closes the "{" at start in the loop of lines 32-42
ScanFrom(t, start) == IF start = 0 THEN 0 ELSE BraceScan(t, start, 0)

\* a variant of BraceAttempt that ends the span at the last "}"
BraceAttempt_LastBrace(t) == ParseSpan(t, Find(t, "{"), RFind(t, "}"))

\* lines 29-42: the parse of text[start:i+1], Fail when there is none
BraceAttempt(t) == ParseSpan(t, Find(t, "{"), ScanFrom(t, Find(t, "{")))

ParseGroup(t, m) == IF m.found THEN json_loads(SubSeq(t, m.from, m.to)) ELSE Fail

\* lines 21-26
FenceAttempt(t) == ParseGroup(t, FencedBlock(t))

\* the first attempt that succeeded, the empty dict of line 46 when none did
FirstOk(whole, fenced, braced) ==
    IF whole.ok THEN whole.val
    ELSE IF fenced.ok THEN fenced.val
    ELSE IF braced.ok THEN braced.val
    ELSE EmptyDict

\* lines 17-46 on the stripped text
Attempts(t) == FirstOk(json_loads(t), FenceAttempt(t), BraceAttempt(t))

extract_json(txt) == Attempts(Strip(txt))

-----------------------------------------------------------------------------
(* str() and repr() of the values json.loads builds *)

DigitChar(d) == Digits[d + 1]

RECURSIVE NatStr(_)
NatStr(n) == IF n < 10 THEN <<DigitChar(n)>> ELSE Append(NatStr(n \div 10), DigitChar(n % 10))

IntStr(n) == IF n < 0 THEN <<"-">> \o NatStr(0 - n) ELSE NatStr(n)

\* repr of a str without backslash: double quotes if it holds a single quote
\* and no double quote, single quotes otherwise; the quote in use and a line
\* break are escaped
StrRepr(s) ==
    LET has(c) == \E i \in 1..Len(s) : s[i] = c
        quote == IF has("'") /\ ~has("\"") THEN "\"" ELSE "'"
    IN  <<quote>> \o Flatten([i \in 1..Len(s) |->
                                CASE s[i] = quote -> <<"\\", quote>>
                                  [] s[i] = "NL" -> <<"\\", "n">>
                                  [] OTHER -> <<s[i]>>])
                  \o <<quote>>

\* ", ".join(parts)
RECURSIVE CommaJoin(_)
CommaJoin(parts) ==
    IF parts = << >> THEN << >>
    ELSE IF Len(parts) = 1 THEN parts[1]
    ELSE parts[1] \o <<",", " ">> \o CommaJoin(Tail(parts))

RECURSIVE PyRepr(_)
PyRepr(x) ==
    CASE x.k = "null" -> <<"None">>
      [] x.k = "bool" -> IF x.v THEN <<"True">> ELSE <<"False">>
      [] x.k = "num" -> IntStr(x.v)
      [] x.k = "str" -> StrRepr(x.v)
      [] x.k = "list" ->
            <<"[">> \o CommaJoin([i \in 1..Len(x.v) |-> PyRepr(x.v[i])]) \o <<"]">>
      [] OTHER ->
            <<"{">> \o CommaJoin([i \in 1..Len(x.v) |->
                        StrRepr(x.v[i].key) \o <<":", " ">> \o PyRepr(x.v[i].val)])
                    \o <<"}">>

\* str(x)
PyStr(x) == IF IsStr(x) THEN x.v ELSE PyRepr(x)

-----------------------------------------------------------------------------
(* ensure_final_strict, src/.venv/agent_demo.py *)

MaxWords == 25

\* what the regular expression of line 66 calls \w: letters, digits, "_"
WordAtoms ==
    {"Alpha", "alpha", "json", "null", "true", "false", "None", "True", "False", "tags", "summary", "summaries",
     "planner", "reviewer", "chosen_tags", "chosen_summary", "data", "thought",
     "message", "issues", "vector", "clocks", "distributed", "systems", "causality",
     "event", "ordering", "conflict", "resolution", "Vector", "track", "in", "without",
     "synchronized", "time", "Distributed", "use", "to", "establish", "partial", "of",
     "events"}

IsWordChar(c) ==
    \/ c \in {"a", "b", "c", "g", "n", "t", "x", "A", "B", "G", "T", "_"} \cup WordAtoms
    \/ IsDigit(c)

\* the class [\w'-] of line 66
IsClassChar(c) == IsWordChar(c) \/ c \in {"'", "-"}

\* re.findall(r"\b[\w'-]+\b", s) from index i on.  A match starts at a word
\* character that no class character precedes in its run (a leading "'" or
\* "-" has no \b before it) and ends after the last word character of the
\* maximal run of class characters it opens (a trailing "'" or "-" has no \b
\* after it); every later start in the run is already consumed.
RECURSIVE Words(_, _)
Words(s, i) ==
    IF i > Len(s) THEN << >>
    ELSE IF ~IsWordChar(s[i]) THEN Words(s, i + 1)
    ELSE LET stop == {j \in i..Len(s) : ~IsClassChar(s[j])}
             runEnd == IF stop = {} THEN Len(s) ELSE Min(stop) - 1
             last == CHOOSE j \in i..runEnd :
                        /\ IsWordChar(s[j])
                        /\ \A m \in (j + 1)..runEnd : ~IsWordChar(s[m])
         IN  <<SubSeq(s, i, last)>> \o Words(s, runEnd + 1)

\* " ".join(ws)
RECURSIVE SpaceJoin(_)
SpaceJoin(ws) ==
    IF ws = << >> THEN << >>
    ELSE IF Len(ws) = 1 THEN ws[1]
    ELSE ws[1] \o <<" ">> \o SpaceJoin(Tail(ws))

K(name) == <<name>>

\* lines 55-58 for one element: whether it is kept, k being its key
Keeps(t, k, seen) == k # << >> /\ k \notin seen

\* lines 53-58: the loop over tags from index i on
RECURSIVE NormLoop(_, _, _, _)
NormStep(tags, i, norm, seen, k) ==
    IF Keeps(tags[i], k, seen)
    THEN NormLoop(tags, i + 1, Append(norm, k), seen \cup {k})
    ELSE NormLoop(tags, i + 1, norm, seen)

NormLoop(tags, i, norm, seen) ==
    IF i > Len(tags) THEN norm
    ELSE IF ~IsStr(tags[i]) THEN NormLoop(tags, i + 1, norm, seen)
    ELSE NormStep(tags, i, norm, seen, Lower(Strip(tags[i].v)))

\* f"tag{n}"
TagN(n) == <<"t", "a", "g">> \o IntStr(n)

\* a variant of PadLoop that numbers the placeholders from 1
PadLoop_FromOne(tags) == tags \o [n \in 1..(3 - Len(tags)) |-> TagN(n)]

\* lines 60-61
RECURSIVE PadLoop(_)
PadLoop(tags) == IF Len(tags) < 3 THEN PadLoop(Append(tags, TagN(Len(tags) + 1))) ELSE tags

\* lines 51-52
AsList(tags) == IF IsList(tags) THEN tags.v ELSE << >>

\* lines 50-61
FinalTags(o) ==
    PadLoop(Take(NormLoop(AsList(Get(o, K("tags"), JList(<< >>))), 1, << >>, {}), 3))

\* lines 64-65
AsStr(summary) == IF IsStr(summary) THEN summary.v ELSE PyStr(summary)

\* a variant of Truncate that keeps every word
Truncate_KeepAll(summary, words) ==
    IF Len(words) > MaxWords THEN SpaceJoin(words) ELSE summary

\* lines 67-68
Truncate(summary, words) ==
    IF Len(words) > MaxWords THEN SpaceJoin(Take(words, MaxWords)) ELSE summary

\* lines 66-68
Shorten(summary) == Truncate(summary, Words(summary, 1))

\* lines 63-68
FinalSummary(o) == Shorten(AsStr(Get(o, K("summary"), JStr(<< >>))))

Raised == [k |-> "raised", v |-> 0]

\* line 70
Record(tags, summary) ==
    JDict(<<Item(K("tags"), JList([i \in 1..Len(tags) |-> JStr(tags[i])])),
            Item(K("summary"), JStr(summary))>>)

\* obj.get raises AttributeError unless obj is a dict
ensure_final_strict(o) ==
    IF ~IsDict(o) THEN Raised ELSE Record(FinalTags(o), FinalSummary(o))

-----------------------------------------------------------------------------
(* main, src/.venv/agent_demo.py: the three stages as functions of the reply *)

\* an exception that leaves main
Raise == [raised |-> TRUE]

\* len(x) is defined
Sized(x) == x.k \in {"str", "list", "dict"}

PyLen(x) == Len(x.v)

\* the objects that "for tag in x" yields (x is a str, a list or a dict)
Iter(x) ==
    CASE x.k = "str" -> [i \in 1..Len(x.v) |-> JStr(<<x.v[i]>>)]
      [] x.k = "list" -> x.v
      [] OTHER -> [i \in 1..Len(x.v) |-> JStr(x.v[i].key)]

\* 't' + str(i) in str(tag) for some i in range(1, 4)
IsPlaceholder(tag) == \E i \in 1..3 : Contains(tag, <<"t">> \o IntStr(i))

AnyPlaceholder(items) == \E n \in 1..Len(items) : IsPlaceholder(PyStr(items[n]))

\* any('t' + str(i) in str(tag) for tag in x for i in range(1, 4))
HasPlaceholder(x) == AnyPlaceholder(Iter(x))

\* lines 139-145
DefaultPlanner ==
    JDict(<<
      Item(K("tags"), JList(<<
        JStr(<<"vector", " ", "clocks">>),
        JStr(<<"distributed", " ", "systems">>),
        JStr(<<"causality">>),
        JStr(<<"event", " ", "ordering">>),
        JStr(<<"conflict", " ", "resolution">>) >>)),
      Item(K("summaries"), JList(<<
        JStr(<<"Vector", " ", "clocks", " ", "track", " ", "event", " ", "causality",
               " ", "in", " ", "distributed", " ", "systems", " ", "without", " ",
               "synchronized", " ", "time">>),
        JStr(<<"Distributed", " ", "systems", " ", "use", " ", "vector", " ", "clocks",
               " ", "to", " ", "establish", " ", "partial", " ", "ordering", " ", "of",
               " ", "events">>) >>)) >>)

\* lines 131-135
Unwrap(planner_json, wrapped) ==
    IF ~Truthy(wrapped) /\ Truthy(Get(planner_json, K("tags"), JNull))
    THEN planner_json
    ELSE wrapped

\* lines 138-145; planner.get raises unless planner is a dict
OrDefault(p) ==
    IF ~IsDict(p) THEN Raise
    ELSE IF ~Truthy(Get(p, K("tags"), JNull)) \/ ~Truthy(Get(p, K("summaries"), JNull))
         THEN [raised |-> FALSE, planner |-> DefaultPlanner]
    ELSE [raised |-> FALSE, planner |-> p]

\* lines 131-145; planner_json.get raises unless planner_json is a dict
PlannerOf(planner_json) ==
    IF ~IsDict(planner_json) THEN Raise
    ELSE OrDefault(Unwrap(planner_json, Get(planner_json, K("planner"), EmptyDict)))

\* lines 130-145: the value of planner, or Raise
PlannerStage(planner_raw) == PlannerOf(extract_json(planner_raw))

\* x[:3] is defined
Sliceable(x) == x.k \in {"str", "list"}

\* x[:3]
FirstThree(x) == [k |-> x.k, v |-> Take(x.v, 3)]

\* x[0] is defined (a dict has no key 0: its keys are strings)
Indexable(x) == x.k \in {"str", "list"} /\ x.v # << >>

\* x[0]
First(x) == IF IsStr(x) THEN JStr(<<x.v[1]>>) ELSE x.v[1]

\* a variant of NeedsPlannerTags without the placeholder test
NeedsPlannerTags_NoPattern(tags) == ~Truthy(tags) \/ PyLen(tags) < 3

\* line 158
NeedsPlannerTags(tags) ==
    ~Truthy(tags) \/ PyLen(tags) < 3 \/ HasPlaceholder(tags)

\* lines 158-161, given whether each fallback is taken
Chosen(rev, tags0, summary0, ptags, psums, useTags, useSummary) ==
    IF useTags /\ ~Sliceable(ptags) THEN Raise
    ELSE IF useSummary /\ ~Indexable(psums) THEN Raise
    ELSE [raised |-> FALSE,
          reviewer |-> rev,
          chosen_tags |-> IF useTags THEN FirstThree(ptags) ELSE tags0,
          chosen_summary |-> IF useSummary THEN First(psums) ELSE summary0]

\* lines 154-161; len(chosen_tags) raises unless chosen_tags is sized
Choose(rev, tags0, summary0, plan) ==
    IF Truthy(tags0) /\ ~Sized(tags0) THEN Raise
    ELSE Chosen(rev, tags0, summary0,
                Get(plan, K("tags"), JList(<< >>)),
                Get(plan, K("summaries"), JList(<<JStr(<< >>)>>)),
                NeedsPlannerTags(tags0), ~Truthy(summary0))

\* lines 154-161; reviewer.get raises unless reviewer is a dict
ReviewerOf(rev, plan) ==
    IF ~IsDict(rev) THEN Raise
    ELSE Choose(rev,
                Get(rev, K("chosen_tags"), JList(<< >>)),
                Get(rev, K("summary"), Get(rev, K("chosen_summary"), JStr(<< >>))),
                plan)

\* lines 153-161; reviewer_json.get raises unless reviewer_json is a dict
ReviewOf(reviewer_json, plan) ==
    IF ~IsDict(reviewer_json) THEN Raise
    ELSE ReviewerOf(Get(reviewer_json, K("reviewer"), EmptyDict), plan)

\* lines 152-161: chosen_tags and chosen_summary, or Raise
ReviewerStage(reviewer_raw, plan) == ReviewOf(extract_json(reviewer_raw), plan)

\* line 177
NeedsChosenTags(o) ==
    ~Truthy(Get(o, K("tags"), JNull)) \/ HasPlaceholder(Get(o, K("tags"), JList(<< >>)))

\* a variant of WithSummary that always takes the Reviewer's summary
WithSummary_Always(o, summary) == SetItem(o, K("summary"), summary)

\* lines 179-180
WithSummary(o, summary) ==
    IF ~Truthy(Get(o, K("summary"), JNull)) THEN SetItem(o, K("summary"), summary) ELSE o

\* lines 177-178
WithTags(o, tags) == IF NeedsChosenTags(o) THEN SetItem(o, K("tags"), tags) ELSE o

\* lines 177-180: the object passed to ensure_final_strict
Substituted(o, tags, summary) == WithSummary(WithTags(o, tags), summary)

\* line 182
Published(o, given) ==
    [raised |-> FALSE, final_obj |-> o, handed |-> given,
     publish |-> ensure_final_strict(given)]

\* lines 177-182; final_obj.get raises unless final_obj is a dict, the loop
\* over its tags unless they are iterable
FinalOf(o, tags, summary) ==
    IF ~IsDict(o) THEN Raise
    ELSE IF Truthy(Get(o, K("tags"), JNull)) /\ ~Sized(Get(o, K("tags"), JNull)) THEN Raise
    ELSE Published(o, Substituted(o, tags, summary))

\* lines 170-182: final_obj as extracted, the object handed on and publish, or Raise
FinalizerStage(final_raw, tags, summary) == FinalOf(extract_json(final_raw), tags, summary)

\* str.lower meets an element that is no str
AnyNotStr(items) == \E i \in 1..Len(items) : ~IsStr(items[i])

\* line 191 raises: the tags cannot be sliced, or hold an element that is no str
TagsRaise(ptags) == ~Sliceable(ptags) \/ AnyNotStr(Iter(FirstThree(ptags)))

\* line 191 raises
HelperRaises(plan) == TagsRaise(Get(plan, K("tags"), JList(<< >>)))

-----------------------------------------------------------------------------
(* src/agents_demo.py *)

max_retries == 5

\* s[start:stop] for 0-based start >= -1 and stop >= 0
PySlice(s, start, stop) ==
    LET lo == IF start < 0
              THEN (IF Len(s) + start < 0 THEN 0 ELSE Len(s) + start)
              ELSE start
        hi == IF stop > Len(s) THEN Len(s) ELSE stop
    IN  Slice(s, lo + 1, hi)

\* lines 149 and 158: json.loads(raw[raw.find('{'):raw.rfind('}') + 1])
LoadBraces(reply) == json_loads(PySlice(reply, Find(reply, "{") - 1, RFind(reply, "}")))

\* x.get("data", {}).get("summary", "") raises (x is a dict)
DataRaises(x) == ~IsDict(Get(x, K("data"), EmptyDict))

\* lines 107-118 raise
PublishRaises(planner_json, reviewer_json) ==
    DataRaises(planner_json) \/ DataRaises(reviewer_json)

-----------------------------------------------------------------------------
(* The inputs *)

MaxTags == 4
MaxReps == 27
MaxTextLen == 3

\* all sequences over S of length at most n
RECURSIVE SeqsUpTo(_, _)
SeqsUpTo(S, n) ==
    IF n = 0 THEN {<< >>}
    ELSE LET shorter == SeqsUpTo(S, n - 1)
         IN  shorter \cup {Append(q, x) : q \in {r \in shorter : Len(r) = n - 1}, x \in S}

\* json.dumps(x)
RECURSIVE Dumps(_)
Dumps(x) ==
    CASE x.k = "null" -> <<"null">>
      [] x.k = "bool" -> IF x.v THEN <<"true">> ELSE <<"false">>
      [] x.k = "num" -> IntStr(x.v)
      [] x.k = "str" -> <<"\"">> \o x.v \o <<"\"">>
      [] x.k = "list" ->
            <<"[">> \o CommaJoin([i \in 1..Len(x.v) |-> Dumps(x.v[i])]) \o <<"]">>
      [] OTHER ->
            <<"{">> \o CommaJoin([i \in 1..Len(x.v) |->
                        <<"\"">> \o x.v[i].key \o <<"\"", ":", " ">> \o Dumps(x.v[i].val)])
                    \o <<"}">>

S1(a) == JStr(<<a>>)
S3(a, b, c) == JList(<<S1(a), S1(b), S1(c)>>)
D1(k1, v1) == JDict(<<Item(K(k1), v1)>>)
D2(k1, v1, k2, v2) == JDict(<<Item(K(k1), v1), Item(K(k2), v2)>>)

\* the elements a tags list is built from: strings that differ in case or in
\* outer whitespace only, a blank string, strings spelled like placeholders,
\* and an element that is no string
TagElems ==
    {S1("Alpha"), JStr(<<" ", "a", " ">>), S1("A"), S1(" "),
     JStr(<<"t", "a", "g", "2">>), JStr(<<"T", "A", "G", "3">>), JNum(5)}

\* the values of obj["tags"]: lists, and values that are no list
TagsInputs ==
    {JList(q) : q \in SeqsUpTo(TagElems, MaxTags)}
        \cup {JNull, JNum(5), JStr(<<"a", "b", "c">>), D1("a", JNum(1))}

SummaryUnits == SeqsUpTo({"a", "-", " ", "."}, 2) \ {<< >>}

\* the values of obj["summary"]: strings of up to MaxReps repetitions of a
\* unit, and values that are no string
SummaryInputs ==
    {JStr(Repeat(u, n)) : u \in SummaryUnits, n \in 0..MaxReps}
        \cup {JList(Repeat(<<JNum(1)>>, n)) : n \in 0..MaxReps}
        \cup {JNull, JNum(5), JBool(TRUE), D1("a", S1("b"))}

\* the mappings ensure_final_strict is applied to
EnforcerInputs ==
    {D2("tags", t, "summary", m) : t \in TagsInputs, m \in {JStr(<<"a", " ", "b">>)}}
        \cup {D2("summary", m, "tags", t) :
                m \in SummaryInputs,
                t \in {JNull, JList(<<S1("Alpha")>>), S3("a", "b", "c")}}
        \cup {D1("tags", t) : t \in {JList(<<S1("Alpha")>>), JList(<< >>)}}
        \cup {D1("summary", m) : m \in {JStr(Repeat(<<"a", " ">>, MaxReps)), JNum(5)}}
        \cup {EmptyDict, D1("x", JNum(1))}

\* the characters texts are enumerated over
TextAlphabet == {"{", "}", "[", "]", "\"", ":", ",", "1", "x", " ", "FENCE", "json"}

Pair == <<"{", "\"", "x", "\"", ":", "1", "}">>

\* texts with an object, another JSON value or none, in prose, in a fence, or
\* next to further braces
TextCores ==
    {Pair,
     <<"{", "\"", "x", "\"", ":", " ", "{", "\"", "x", "\"", ":", "1", "}", "}">>,
     <<"{", "\"", "{", "\"", ":", "1", "}">>,
     <<"{", "\"", "}", "\"", ":", "1", "}">>,
     <<"{", "x", "}">>,
     <<"[", "1", ",", "1", "]">>,
     <<"1">>, <<"null">>, <<"\"", "x", "\"">>,
     <<"{">>, << >>}

TextPrefixes ==
    {<< >>, <<"x", " ">>, <<" ">>, <<"FENCE">>, <<"x", "NL", "FENCE", "json", "NL">>,
     <<"{", "x", "}", " ">>, <<"}">>, <<"FENCE", "{", "}", "}", "FENCE">>}

TextSuffixes ==
    {<< >>, <<" ", "x">>, <<"FENCE">>, <<"NL", "FENCE", "x">>, <<"}", "FENCE">>,
     <<" ", "}">>, <<" ">> \o Pair}

\* 'Sure! {"tags":["a","b","c"]} Thanks.'
SureThanks ==
    <<"Sure", "!", " ", "{", "\"", "tags", "\"", ":", "[", "\"", "a", "\"", ",",
      "\"", "b", "\"", ",", "\"", "c", "\"", "]", "}", " ", "Thanks", ".">>

\* the texts extract_json is applied to
Texts ==
    SeqsUpTo(TextAlphabet, MaxTextLen)
        \cup {p \o c \o x : p \in TextPrefixes, c \in TextCores, x \in TextSuffixes}
        \cup {SureThanks, <<"no", " ", "braces", " ", "here">>}

InProse(t) == <<"x", " ">> \o t \o <<" ", "x">>

InFence(t) == <<"x", "NL", "FENCE", "json", "NL">> \o t \o <<"NL", "FENCE">>

Garbage == <<"x", " ", "x">>

T1 == JStr(<<"t", "1">>)
T123 == JList(<<JStr(<<"t", "1">>), JStr(<<"t", "2">>), JStr(<<"t", "3">>)>>)
Dots == JStr(<<".", ".", ".">>)
Sums == JList(<<JStr(<<"a", " ", "b">>), S1("c")>>)
PlannerGood == D1("planner", D2("tags", JList(<<S1("a"), S1("b"), S1("c"), S1("x")>>),
                                 "summaries", Sums))

\* the replies of the model to the Planner call of src/.venv/agent_demo.py:
\* the expected object, bare, in prose, in a fence; the object without its
\* wrapper; fields that are empty or of another type; JSON that is no
\* object; text without JSON
PlannerReplies ==
    {Dumps(PlannerGood), InProse(Dumps(PlannerGood)), InFence(Dumps(PlannerGood)),
     Dumps(D2("tags", S3("a", "b", "x"), "summaries", Sums)),
     Dumps(D1("planner", D2("tags", JList(<< >>), "summaries", Sums))),
     Dumps(D1("planner", D2("tags", JList(<<T1, S1("a"), S1("b"), S1("c")>>),
                            "summaries", Sums))),
     Dumps(D1("planner", D2("tags", JStr(<<"a", "b", "c", "x">>),
                            "summaries", JStr(<<"a", "b">>)))),
     Dumps(D1("planner", D2("tags", D1("a", JNum(1)), "summaries", D1("a", JNum(1))))),
     Dumps(D1("planner", D2("tags", JList(<<JNum(1), JNum(2), JNum(3)>>),
                            "summaries", JList(<<JNum(1)>>)))),
     Dumps(D1("planner", D2("tags", JNum(5), "summaries", JNum(5)))),
     Dumps(D1("planner", JList(<<JNum(1)>>))),
     Dumps(D1("planner", JNull)),
     Dumps(JList(<<JNum(1)>>)),
     Dumps(JNum(1)),
     Garbage}

ReviewerGood == D1("reviewer", D2("chosen_tags", S3("a", "b", "x"), "summary", S1("c")))

\* the replies of the model to the Reviewer call
ReviewerReplies ==
    {Dumps(ReviewerGood), InProse(Dumps(ReviewerGood)), InFence(Dumps(ReviewerGood)),
     Dumps(D1("reviewer", D2("chosen_tags", T123, "summary", Dots))),
     Dumps(D1("reviewer", D1("chosen_tags", JList(<<S1("a"), S1("b")>>)))),
     Dumps(D1("reviewer", D2("chosen_tags", JList(<<S1("a"), JStr(<<"x", "t", "2", "x">>),
                                                    S1("c")>>),
                             "summary", S1("c")))),
     Dumps(D1("reviewer", D2("chosen_tags", JList(<<S1("a"), S1("b"), JList(<<T1>>)>>),
                             "chosen_summary", S1("b")))),
     Dumps(D1("reviewer", JDict(<<Item(K("chosen_tags"), S3("a", "b", "c")),
                                  Item(K("summary"), JStr(<< >>)),
                                  Item(K("chosen_summary"), S1("b"))>>))),
     Dumps(D1("reviewer", D2("chosen_tags", JStr(<<"a", "b", "c">>),
                             "chosen_summary", S1("b")))),
     Dumps(D1("reviewer", D2("chosen_tags", JList(<<JNum(1), JNum(2), JNum(3)>>),
                             "summary", JNum(5)))),
     Dumps(D1("reviewer", D2("chosen_tags", JNum(5), "summary", S1("c")))),
     Dumps(D1("reviewer", JList(<<JNum(1)>>))),
     Dumps(JList(<<JNum(1)>>)),
     Garbage}

FinalGood == D2("tags", JList(<<S1("A"), JStr(<<"b", " ">>), S1("c")>>),
                "summary", JStr(<<"a", " ", "c">>))

\* the replies of the model to the Finalizer call
FinalizerReplies ==
    {Dumps(FinalGood), InProse(Dumps(FinalGood)),
     Dumps(D2("tags", T123, "summary", Dots)),
     Dumps(D1("tags", T123)),
     Dumps(D1("summary", S1("x"))),
     Dumps(D2("tags", JList(<<S1("a")>>), "summary", S1("x"))),
     Dumps(D2("tags", JStr(<<"a", "b", "c">>), "summary", S1("x"))),
     Dumps(D1("tags", JNum(5))),
     Dumps(JList(<<JNum(1)>>)),
     Garbage}

V2Good ==
    JDict(<<Item(K("thought"), S1("a")), Item(K("message"), S1("b")),
            Item(K("data"), D2("tags", S3("a", "b", "c"), "summary", S1("c"))),
            Item(K("issues"), JList(<< >>))>>)

\* the replies of the model to the calls of src/agents_demo.py
V2Replies ==
    {Dumps(V2Good), InProse(Dumps(V2Good)),
     Dumps(D1("data", JList(<<JNum(1)>>))),
     Dumps(JList(<<JNum(1)>>)),
     <<"[", "{", "}", "]">>,
     <<"{", "}", " ", "{", "}">>,
     <<"x", "}">>,
     Garbage}

\* what a request to /api/version ends in: status 200, another status, an
\* exception
ProbeOutcomes == {"200", "503", "exception"}

-----------------------------------------------------------------------------
(* The programs *)

IdleEnforce == obj = JNull /\ publish = JNull

IdleExtract == text = << >> /\ extracted = JNull

IdleMain ==
    /\ calls = << >> /\ raw = << >> /\ planner = JNull /\ reviewer = JNull
    /\ chosen_tags = JNull /\ chosen_summary = JNull /\ final_obj = JNull
    /\ handed = JNull /\ attempts = << >> /\ sleeps = << >> /\ printed = << >>

InitEnforce ==
    /\ IdleExtract
    /\ IdleMain
    /\ publish = JNull
    /\ mode = "enforce"
    /\ pc = "start"
    /\ obj \in EnforcerInputs

\* publish = ensure_final_strict(obj)
Enforce ==
    /\ mode = "enforce"
    /\ pc = "start"
    /\ publish' = ensure_final_strict(obj)
    /\ pc' = "done"
    /\ UNCHANGED <<mode, obj, text, extracted, calls, raw, planner, reviewer, chosen_tags,
                   chosen_summary, final_obj, handed, attempts, sleeps, printed>>

NextEnforce == Enforce

SpecEnforce == InitEnforce /\ [][NextEnforce]_vars

InitExtract ==
    /\ IdleEnforce
    /\ IdleMain
    /\ extracted = JNull
    /\ mode = "extract"
    /\ pc = "start"
    /\ text \in Texts

\* extracted = extract_json(text)
Extract ==
    /\ mode = "extract"
    /\ pc = "start"
    /\ extracted' = extract_json(text)
    /\ pc' = "done"
    /\ UNCHANGED <<mode, obj, publish, text, calls, raw, planner, reviewer, chosen_tags,
                   chosen_summary, final_obj, handed, attempts, sleeps, printed>>

NextExtract == Extract

SpecExtract == InitExtract /\ [][NextExtract]_vars

InitMain ==
    /\ IdleEnforce
    /\ IdleExtract
    /\ IdleMain
    /\ mode \in {"v1", "v2"}
    /\ pc = IF mode = "v1" THEN "start" ELSE "probe"

\* src/.venv/agent_demo.py line 127: the Planner call is issued
CallPlanner ==
    /\ mode = "v1" /\ pc = "start"
    /\ calls' = Append(calls, "Planner")
    /\ pc' = "planner_wait"
    /\ UNCHANGED <<mode, obj, publish, text, extracted, raw, planner, reviewer, chosen_tags,
                   chosen_summary, final_obj, handed, attempts, sleeps, printed>>

\* line 127: ask returns the reply
ReplyPlanner ==
    /\ mode = "v1" /\ pc = "planner_wait"
    /\ raw' \in PlannerReplies
    /\ pc' = "planner_got"
    /\ UNCHANGED <<mode, obj, publish, text, extracted, calls, planner, reviewer,
                   chosen_tags, chosen_summary, final_obj, handed, attempts, sleeps, printed>>

\* a variant of ProcessPlanner that asks the Planner again when its reply
\* yields the defaults
ProcessPlanner_Retry ==
    /\ mode = "v1" /\ pc = "planner_got"
    /\ \E r \in {PlannerStage(raw)} :
          IF r.raised
          THEN pc' = "raised" /\ UNCHANGED planner
          ELSE IF r.planner = DefaultPlanner
               THEN pc' = "start" /\ UNCHANGED planner
          ELSE pc' = "reviewer_call" /\ planner' = r.planner
    /\ UNCHANGED <<mode, obj, publish, text, extracted, calls, raw, reviewer, chosen_tags,
                   chosen_summary, final_obj, handed, attempts, sleeps, printed>>

\* lines 128-145
ProcessPlanner ==
    /\ mode = "v1" /\ pc = "planner_got"
    /\ \E r \in {PlannerStage(raw)} :
          IF r.raised
          THEN pc' = "raised" /\ UNCHANGED planner
          ELSE pc' = "reviewer_call" /\ planner' = r.planner
    /\ UNCHANGED <<mode, obj, publish, text, extracted, calls, raw, reviewer, chosen_tags,
                   chosen_summary, final_obj, handed, attempts, sleeps, printed>>

\* lines 148-149: the Reviewer call is issued
CallReviewer ==
    /\ mode = "v1" /\ pc = "reviewer_call"
    /\ calls' = Append(calls, "Reviewer")
    /\ pc' = "reviewer_wait"
    /\ UNCHANGED <<mode, obj, publish, text, extracted, raw, planner, reviewer, chosen_tags,
                   chosen_summary, final_obj, handed, attempts, sleeps, printed>>

\* line 149: ask returns the reply
ReplyReviewer ==
    /\ mode = "v1" /\ pc = "reviewer_wait"
    /\ raw' \in ReviewerReplies
    /\ pc' = "reviewer_got"
    /\ UNCHANGED <<mode, obj, publish, text, extracted, calls, planner, reviewer,
                   chosen_tags, chosen_summary, final_obj, handed, attempts, sleeps, printed>>

\* lines 150-161
ProcessReviewer ==
    /\ mode = "v1" /\ pc = "reviewer_got"
    /\ \E r \in {ReviewerStage(raw, planner)} :
          IF r.raised
          THEN pc' = "raised" /\ UNCHANGED <<reviewer, chosen_tags, chosen_summary>>
          ELSE /\ pc' = "finalizer_call"
               /\ reviewer' = r.reviewer
               /\ chosen_tags' = r.chosen_tags
               /\ chosen_summary' = r.chosen_summary
    /\ UNCHANGED <<mode, obj, publish, text, extracted, calls, raw, planner, final_obj,
                   handed, attempts, sleeps, printed>>

\* lines 165-167: the Finalizer call is issued
CallFinalizer ==
    /\ mode = "v1" /\ pc = "finalizer_call"
    /\ calls' = Append(calls, "Finalizer")
    /\ pc' = "finalizer_wait"
    /\ UNCHANGED <<mode, obj, publish, text, extracted, raw, planner, reviewer, chosen_tags,
                   chosen_summary, final_obj, handed, attempts, sleeps, printed>>

\* line 167: ask returns the reply
ReplyFinalizer ==
    /\ mode = "v1" /\ pc = "finalizer_wait"
    /\ raw' \in FinalizerReplies
    /\ pc' = "finalizer_got"
    /\ UNCHANGED <<mode, obj, publish, text, extracted, calls, planner, reviewer,
                   chosen_tags, chosen_summary, final_obj, handed, attempts, sleeps, printed>>

\* lines 168-185: through the print of the publish record
ProcessFinalizer ==
    /\ mode = "v1" /\ pc = "finalizer_got"
    /\ \E r \in {FinalizerStage(raw, chosen_tags, chosen_summary)} :
          IF r.raised
          THEN pc' = "raised" /\ UNCHANGED <<final_obj, handed, publish, printed>>
          ELSE /\ pc' = "published"
               /\ final_obj' = r.final_obj
               /\ handed' = r.handed
               /\ publish' = r.publish
               /\ printed' = Append(printed, "publish")
    /\ UNCHANGED <<mode, obj, text, extracted, calls, raw, planner, reviewer, chosen_tags,
                   chosen_summary, attempts, sleeps>>

\* lines 187-192
Helper ==
    /\ mode = "v1" /\ pc = "published"
    /\ pc' = IF HelperRaises(planner) THEN "raised" ELSE "done"
    /\ UNCHANGED <<mode, obj, publish, text, extracted, calls, raw, planner, reviewer,
                   chosen_tags, chosen_summary, final_obj, handed, attempts, sleeps, printed>>

\* src/agents_demo.py lines 10-16: one pass of the loop of wait_ollama
Probe ==
    /\ mode = "v2" /\ pc = "probe"
    /\ Len(attempts) < max_retries
    /\ \E outcome \in ProbeOutcomes :
          /\ attempts' = Append(attempts, outcome)
          /\ sleeps' = Append(sleeps, outcome = "exception")
          /\ pc' = IF outcome = "200" THEN "start" ELSE "probe"
    /\ UNCHANGED <<mode, obj, publish, text, extracted, calls, raw, planner, reviewer,
                   chosen_tags, chosen_summary, final_obj, handed, printed>>

\* lines 17 and 141-143: wait_ollama returns False and main returns
GiveUp ==
    /\ mode = "v2" /\ pc = "probe"
    /\ Len(attempts) = max_retries
    /\ printed' = Append(printed, "cannot_connect")
    /\ pc' = "returned"
    /\ UNCHANGED <<mode, obj, publish, text, extracted, calls, raw, planner, reviewer,
                   chosen_tags, chosen_summary, final_obj, handed, attempts, sleeps>>

\* lines 145-146: the Planner call is issued
V2CallPlanner ==
    /\ mode = "v2" /\ pc = "start"
    /\ calls' = Append(calls, "Planner")
    /\ pc' = "planner_wait"
    /\ UNCHANGED <<mode, obj, publish, text, extracted, raw, planner, reviewer, chosen_tags,
                   chosen_summary, final_obj, handed, attempts, sleeps, printed>>

\* line 146: ask_ollama returns the reply
V2ReplyPlanner ==
    /\ mode = "v2" /\ pc = "planner_wait"
    /\ raw' \in V2Replies
    /\ pc' = "planner_got"
    /\ UNCHANGED <<mode, obj, publish, text, extracted, calls, planner, reviewer,
                   chosen_tags, chosen_summary, final_obj, handed, attempts, sleeps, printed>>

\* lines 147-152
V2LoadPlanner ==
    /\ mode = "v2" /\ pc = "planner_got"
    /\ \E r \in {LoadBraces(raw)} :
          IF r.ok
          THEN pc' = "reviewer_call" /\ planner' = r.val /\ UNCHANGED printed
          ELSE /\ pc' = "returned"
               /\ printed' = Append(printed, "planner_invalid")
               /\ UNCHANGED planner
    /\ UNCHANGED <<mode, obj, publish, text, extracted, calls, raw, reviewer, chosen_tags,
                   chosen_summary, final_obj, handed, attempts, sleeps>>

\* lines 154-155: the Reviewer call is issued
V2CallReviewer ==
    /\ mode = "v2" /\ pc = "reviewer_call"
    /\ calls' = Append(calls, "Reviewer")
    /\ pc' = "reviewer_wait"
    /\ UNCHANGED <<mode, obj, publish, text, extracted, raw, planner, reviewer, chosen_tags,
                   chosen_summary, final_obj, handed, attempts, sleeps, printed>>

\* line 155: ask_ollama returns the reply
V2ReplyReviewer ==
    /\ mode = "v2" /\ pc = "reviewer_wait"
    /\ raw' \in V2Replies
    /\ pc' = "reviewer_got"
    /\ UNCHANGED <<mode, obj, publish, text, extracted, calls, planner, reviewer,
                   chosen_tags, chosen_summary, final_obj, handed, attempts, sleeps, printed>>

\* lines 156-161
V2LoadReviewer ==
    /\ mode = "v2" /\ pc = "reviewer_got"
    /\ \E r \in {LoadBraces(raw)} :
          IF r.ok
          THEN pc' = "finalizer_call" /\ reviewer' = r.val /\ UNCHANGED printed
          ELSE /\ pc' = "returned"
               /\ printed' = Append(printed, "reviewer_invalid")
               /\ UNCHANGED reviewer
    /\ UNCHANGED <<mode, obj, publish, text, extracted, calls, raw, planner, chosen_tags,
                   chosen_summary, final_obj, handed, attempts, sleeps>>

\* lines 163 and 96-121: finalizer
V2Finalizer ==
    /\ mode = "v2" /\ pc = "finalizer_call"
    /\ IF PublishRaises(planner, reviewer)
       THEN pc' = "raised" /\ printed' = Append(printed, "finalized")
       ELSE pc' = "done" /\ printed' = printed \o <<"finalized", "publish">>
    /\ UNCHANGED <<mode, obj, publish, text, extracted, calls, raw, planner, reviewer,
                   chosen_tags, chosen_summary, final_obj, handed, attempts, sleeps>>

NextMain ==
    \/ CallPlanner \/ ReplyPlanner \/ ProcessPlanner
    \/ CallReviewer \/ ReplyReviewer \/ ProcessReviewer
    \/ CallFinalizer \/ ReplyFinalizer \/ ProcessFinalizer \/ Helper
    \/ Probe \/ GiveUp
    \/ V2CallPlanner \/ V2ReplyPlanner \/ V2LoadPlanner
    \/ V2CallReviewer \/ V2ReplyReviewer \/ V2LoadReviewer \/ V2Finalizer

SpecMain == InitMain /\ [][NextMain]_vars

-----------------------------------------------------------------------------
(* Properties of ensure_final_strict, checked under SpecEnforce *)

Enforced == mode = "enforce" /\ pc = "done"

\* the tags of the record returned, as strings
OutTags ==
    LET tags == Get(publish, K("tags"), JList(<< >>)).v
    IN  [i \in 1..Len(tags) |-> tags[i].v]

\* C1: for every input, no two of the output tags are equal when case is
\* ignored, and every output tag is lowercase.
C1_TagsDistinctLowercase ==
    Enforced =>
        /\ \A i, j \in 1..Len(OutTags) : i # j => Lower(OutTags[i]) # Lower(OutTags[j])
        /\ \A i \in 1..Len(OutTags) : OutTags[i] = Lower(OutTags[i])

\* C2: for every input mapping ensure_final_strict returns, without raising,
\* a mapping with exactly the keys tags and summary, where tags is a list of
\* exactly 3 strings and summary is a string of at most 25 words (a word is
\* a match of the pattern of line 66).
C2_EnforcerTotal ==
    Enforced =>
        /\ publish # Raised
        /\ IsDict(publish)
        /\ Len(publish.v) = 2
        /\ {publish.v[i].key : i \in 1..2} = {K("tags"), K("summary")}
        /\ IsList(Get(publish, K("tags"), JNull))
        /\ Len(Get(publish, K("tags"), JNull).v) = 3
        /\ \A i \in 1..3 : IsStr(Get(publish, K("tags"), JNull).v[i])
        /\ IsStr(Get(publish, K("summary"), JNull))
        /\ Len(Words(Get(publish, K("summary"), JNull).v, 1)) <= 25

\* tags that are no list, a summary that is no string and holds more than 25
\* words
C2_Witness ==
    /\ Enforced
    /\ ~IsList(Get(obj, K("tags"), JNull))
    /\ ~IsStr(Get(obj, K("summary"), JNull))
    /\ Len(Words(PyStr(Get(obj, K("summary"), JNull)), 1)) > 25
    /\ Len(OutTags) = 3

\* the tags list of the input, empty when tags is missing or no list
InTags ==
    LET tags == Get(obj, K("tags"), JList(<< >>))
    IN  IF IsList(tags) THEN tags.v ELSE << >>

\* the indices of the input tags that survive: strings that are not blank and
\* equal no earlier string once both are trimmed and lowercased
Survivors ==
    {i \in 1..Len(InTags) :
        /\ IsStr(InTags[i])
        /\ Lower(Strip(InTags[i].v)) # << >>
        /\ \A j \in 1..(i - 1) :
              IsStr(InTags[j]) => Lower(Strip(InTags[j].v)) # Lower(Strip(InTags[i].v))}

\* C7: the output tags are the first 3 survivors of the input tags, trimmed
\* and lowercased, in input order; when only k < 3 survive, the placeholders
\* tag(k+1) .. tag3 follow them in order.
C7_TagConstruction ==
    Enforced =>
        /\ Len(OutTags) = 3
        /\ \A i \in Survivors :
              LET rank == Cardinality({j \in Survivors : j <= i})
              IN  rank <= 3 => OutTags[rank] = Lower(Strip(InTags[i].v))
        /\ \A n \in 1..3 :
              n > Cardinality(Survivors) => OutTags[n] = <<"t", "a", "g", Digits[n + 1]>>

\* {"tags": ["Alpha"]} yields ["alpha", "tag2", "tag3"]
C7_Witness ==
    /\ Enforced
    /\ obj = D1("tags", JList(<<S1("Alpha")>>))
    /\ OutTags = << <<"alpha">>, <<"t", "a", "g", "2">>, <<"t", "a", "g", "3">> >>

-----------------------------------------------------------------------------
(* Properties of extract_json, checked under SpecExtract *)

Extracted == mode = "extract" /\ pc = "done"

\* C4: for every text extract_json returns a mapping, the empty mapping when
\* the text holds no brace; valid JSON that is no object yields no value that
\* is not a mapping.
C4_ExtractReturnsMapping ==
    Extracted =>
        /\ IsDict(extracted)
        /\ Find(text, "{") = 0 => extracted = EmptyDict

\* the number of symbols c among t[a..b]
Count(t, a, b, c) == Cardinality({i \in a..b : t[i] = c})

\* the span from the first "{" to the "}" at which the naive depth first
\* returns to zero
FirstBalanced(t) ==
    LET start == Find(t, "{")
        ends == {i \in start..Len(t) :
                    /\ start # 0
                    /\ t[i] = "}"
                    /\ Count(t, start, i, "{") = Count(t, start, i, "}")}
    IN  IF ends = {} THEN << >> ELSE SubSeq(t, start, Min(ends))

\* C8: the attempts are tried in order and the first success wins: the whole
\* trimmed text, then the fenced block, then the span from the first "{" to
\* the "}" where the naive depth first returns to zero; when that span does
\* not parse or the braces never balance the result is the empty mapping (no
\* later "{" is tried).
C8_OrderedAttempts ==
    Extracted =>
        LET t == Strip(text)
            whole == json_loads(t)
            fence == FencedBlock(t)
            fenced == IF fence.found THEN json_loads(SubSeq(t, fence.from, fence.to)) ELSE Fail
            braced == json_loads(FirstBalanced(t))
        IN  extracted = IF whole.ok THEN whole.val
                        ELSE IF fenced.ok THEN fenced.val
                        ELSE IF braced.ok THEN braced.val
                        ELSE EmptyDict

\* 'Sure! {"tags":["a","b","c"]} Thanks.' yields {"tags":["a","b","c"]}
C8_Witness ==
    /\ Extracted
    /\ text = SureThanks
    /\ extracted = D1("tags", S3("a", "b", "c"))

-----------------------------------------------------------------------------
(* Properties of the two mains, checked under SpecMain *)

\* x holds an element whose str() contains t1, t2 or t3
HoldsPlaceholder(x) ==
    \E n \in 1..Len(Iter(x)) : \E d \in {"1", "2", "3"} :
        Contains(PyStr(Iter(x)[n]), <<"t", d>>)

\* C3: whatever the three replies are, main (src/.venv/agent_demo.py) raises
\* no error on its way to the publish step: a run that has stopped by an
\* exception has printed its publish package before.
C3_PipelineNeverRaises ==
    mode = "v1" /\ pc = "raised" => \E i \in 1..Len(printed) : printed[i] = "publish"

\* the Finalizer stage has handed an object to ensure_final_strict
FinalizerRan == mode = "v1" /\ handed # JNull

\* the extracted Finalizer result lacks tags or holds a placeholder tag
FinalLacksTags ==
    \/ ~Truthy(Get(final_obj, K("tags"), JNull))
    \/ HoldsPlaceholder(Get(final_obj, K("tags"), JNull))

\* C5 as stated: when the extracted Finalizer result lacks tags or holds a
\* placeholder tag, the object handed to ensure_final_strict carries the
\* Reviewer's chosen tags and the Reviewer's chosen summary.
C5_FinalizerBypassedEntirely ==
    FinalizerRan /\ FinalLacksTags =>
        /\ Get(handed, K("tags"), JNull) = chosen_tags
        /\ Get(handed, K("summary"), JNull) = chosen_summary

\* C5 as amended: when the extracted Finalizer result lacks tags or holds a
\* placeholder tag, the object handed to ensure_final_strict carries the
\* Reviewer's chosen tags; it carries the Reviewer's chosen summary when the
\* Finalizer result has no summary or an empty one, and the summary of the
\* Finalizer result otherwise.
C5_TagsReplacedSummaryKept ==
    FinalizerRan /\ FinalLacksTags =>
        /\ Get(handed, K("tags"), JNull) = chosen_tags
        /\ Get(handed, K("summary"), JNull) =
              IF Truthy(Get(final_obj, K("summary"), JNull))
              THEN Get(final_obj, K("summary"), JNull)
              ELSE chosen_summary

\* placeholder tags beside a summary of the model's own, which is kept
C5_Witness ==
    /\ FinalizerRan
    /\ Get(final_obj, K("tags"), JNull) = T123
    /\ Get(final_obj, K("summary"), JNull) = Dots
    /\ Get(handed, K("tags"), JNull) = chosen_tags
    /\ Get(handed, K("summary"), JNull) = Dots
    /\ chosen_summary # Dots

\* the Reviewer stage has set chosen_tags and chosen_summary
ReviewerRan == mode = "v1" /\ reviewer # JNull

\* C6: when the extracted Reviewer result is missing, has fewer than 3 chosen
\* tags or holds a chosen tag that contains t1, t2 or t3, the chosen tags
\* passed on are the first three tags of planner (the value after its own
\* fallback); when the Reviewer's summary is missing, the first summary of
\* planner is used.
C6_ReviewerFallback ==
    ReviewerRan =>
        LET tags0 == Get(reviewer, K("chosen_tags"), JList(<< >>))
            summary0 == Get(reviewer, K("summary"),
                            Get(reviewer, K("chosen_summary"), JStr(<< >>)))
            ptags == Get(planner, K("tags"), JNull)
            psums == Get(planner, K("summaries"), JNull)
        IN  /\ (~Truthy(tags0) \/ Len(tags0.v) < 3 \/ HoldsPlaceholder(tags0)) =>
                  /\ chosen_tags.k = ptags.k
                  /\ chosen_tags.v = SubSeq(ptags.v, 1, Min({3, Len(ptags.v)}))
            /\ ~Truthy(summary0) =>
                  chosen_summary = IF IsStr(psums) THEN JStr(<<psums.v[1]>>) ELSE psums.v[1]

\* the Reviewer chose ["t1","t2","t3"]: the first three tags of planner go on
C6_Witness ==
    /\ ReviewerRan
    /\ pc = "finalizer_call"
    /\ Get(reviewer, K("chosen_tags"), JNull) = T123
    /\ Get(planner, K("tags"), JNull) = JList(<<S1("a"), S1("b"), S1("c"), S1("x")>>)
    /\ chosen_tags = S3("a", "b", "c")

IsPrefix(a, b) == Len(a) <= Len(b) /\ a = SubSeq(b, 1, Len(a))

\* C9: the model calls are issued in the order Planner, Reviewer, Finalizer
\* (Planner, Reviewer in src/agents_demo.py), each at most once; a call is
\* issued only once the reply to the one before has been processed; in
\* src/agents_demo.py no Reviewer call follows a Planner reply that failed to
\* parse.
C9_OneCallPerStageInOrder ==
    /\ mode = "v1" =>
          /\ IsPrefix(calls, <<"Planner", "Reviewer", "Finalizer">>)
          /\ Len(calls) >= 2 => planner # JNull
          /\ Len(calls) >= 3 => reviewer # JNull
          /\ pc \in {"planner_wait", "planner_got"} => Len(calls) = 1
          /\ pc \in {"reviewer_wait", "reviewer_got"} => Len(calls) = 2
    /\ mode = "v2" =>
          /\ IsPrefix(calls, <<"Planner", "Reviewer">>)
          /\ Len(calls) >= 2 => planner # JNull
          /\ (\E i \in 1..Len(printed) : printed[i] = "planner_invalid") =>
                calls = <<"Planner">>

\* the Planner's reply fell back to the defaults, the Reviewer chose
\* placeholders, and each stage was called once
C9_Witness ==
    /\ mode = "v1"
    /\ pc = "published"
    /\ planner = DefaultPlanner
    /\ Get(reviewer, K("chosen_tags"), JNull) = T123
    /\ calls = <<"Planner", "Reviewer", "Finalizer">>

\* C10: wait_ollama makes at most max_retries requests with a delay between
\* consecutive requests, whether the earlier one failed by an exception or by
\* a status other than 200; it stops at the first status 200; when no request
\* succeeds main returns without a model call and without printing a
\* finalized output or a publish package.
C10_BoundedProbeWithDelay ==
    mode = "v2" =>
        /\ Len(attempts) <= max_retries
        /\ \A i \in 1..(Len(attempts) - 1) : sleeps[i]
        /\ \A i \in 1..(Len(attempts) - 1) : attempts[i] # "200"
        /\ calls # << >> => attempts[Len(attempts)] = "200"
        /\ (\E i \in 1..Len(printed) : printed[i] = "cannot_connect") =>
              /\ Len(attempts) = max_retries
              /\ calls = << >>
              /\ \A i \in 1..Len(printed) : printed[i] \notin {"finalized", "publish"}

=============================================================================
